---------------------------- MODULE Spec2Model ----------------------------
(***************************************************************************)
(* A model of seval, the numeric-literal scanner of src/include/seval.hpp  *)
(* (evaluate and evaluate_n) and of its earlier revision src/seval.hpp     *)
(* (evaluate).                                                             *)
(*                                                                         *)
(* One behaviour of the model is one call.  `call` holds the arguments of  *)
(* the call (and the header and language standard it was compiled from),   *)
(* `scan` holds the locals of the call: the cursor i, the accumulator      *)
(* number, the sign, the per-stage counter cnt, the exponent, and pc, the  *)
(* position in the body of evaluate / evaluate_n.  Every loop iteration    *)
(* of the code is one step.                                                *)
(*                                                                         *)
(* Values.  For an integral T a value is the integer the T object holds;   *)
(* arithmetic is done as the code does it, in the promoted type, and the   *)
(* store back into T reduces it modulo 2^bits (Convert).  The integral     *)
(* types modelled are the 8 and 16 bit ones, for which the promoted        *)
(* arithmetic cannot overflow; the 32 and 64 bit instantiations run the    *)
(* same template code.  A left shift of a negative promoted value is taken *)
(* as the multiplication GCC, Clang and MSVC all define it to be.          *)
(* For a floating-point T a value is the record [m, e] standing for the    *)
(* real number m * 10^e, kept normalised, so floating-point arithmetic is  *)
(* modelled as exact decimal arithmetic (no rounding).                     *)
(***************************************************************************)
EXTENDS Integers, Sequences, FiniteSets, TLC

(***************************************************************************)
(* Bounds of the model.                                                    *)
(***************************************************************************)
\* longest source drawn from the whole alphabet
MaxLen == 3
\* longest source of the bounded calls
MaxLenN == 3
\* longest source of the calls that vary the flags
MaxLenF == 2
\* largest finite maxLength tried on the test literals
MaxCap == 6
\* longest source of the calls checked for termination
MaxLenL == 2

(***************************************************************************)
(* Characters.  A character is a one-letter string; NUL is the sentinel    *)
(* '\0' that ends a source.  Ord is the character's code (ASCII), which    *)
(* the classifiers compare and the converters subtract.                    *)
(***************************************************************************)
NUL == "NUL"

Ord(c) ==
    CASE c = NUL -> 0
      [] c = "+" -> 43  [] c = "-" -> 45  [] c = "." -> 46
      [] c = "0" -> 48  [] c = "1" -> 49  [] c = "2" -> 50  [] c = "3" -> 51
      [] c = "4" -> 52  [] c = "5" -> 53  [] c = "6" -> 54  [] c = "7" -> 55
      [] c = "8" -> 56  [] c = "9" -> 57
      [] c = "A" -> 65  [] c = "B" -> 66  [] c = "C" -> 67  [] c = "D" -> 68
      [] c = "E" -> 69  [] c = "F" -> 70  [] c = "X" -> 88
      [] c = "a" -> 97  [] c = "b" -> 98  [] c = "c" -> 99  [] c = "d" -> 100
      [] c = "e" -> 101 [] c = "f" -> 102 [] c = "g" -> 103 [] c = "x" -> 120

\* str[k] of a sentinel-terminated source (k counts from 0)
CharAt(str, k) == IF k < Len(str) THEN str[k + 1] ELSE NUL

(***************************************************************************)
(* Target types.                                                           *)
(***************************************************************************)
Int8   == [kind |-> "int", bits |-> 8,  signed |-> TRUE]
UInt8  == [kind |-> "int", bits |-> 8,  signed |-> FALSE]
Int16  == [kind |-> "int", bits |-> 16, signed |-> TRUE]
UInt16 == [kind |-> "int", bits |-> 16, signed |-> FALSE]
Float  == [kind |-> "float", bits |-> 0, signed |-> TRUE]

IntegralTypes == {Int8, UInt8, Int16, UInt16}
Types == IntegralTypes \cup {Float}

is_integral(T) == T.kind = "int"
is_floating_point(T) == T.kind = "float"

RECURSIVE Pow2(_)
Pow2(n) == IF n = 0 THEN 1 ELSE 2 * Pow2(n - 1)

TypeMax(T) == IF T.signed THEN Pow2(T.bits - 1) - 1 ELSE Pow2(T.bits) - 1
TypeMin(T) == IF T.signed THEN 0 - Pow2(T.bits - 1) ELSE 0

(***************************************************************************)
(* Floating-point values as exact decimals m * 10^e.                       *)
(***************************************************************************)
RECURSIVE Norm(_)
Norm(v) ==
    IF v.m = 0 THEN [m |-> 0, e |-> 0]
    ELSE IF v.m % 10 = 0 THEN Norm([m |-> v.m \div 10, e |-> v.e + 1])
    ELSE v

RECURSIVE Pow10(_)
Pow10(n) == IF n = 0 THEN 1 ELSE 10 * Pow10(n - 1)

FInt(x) == Norm([m |-> x, e |-> 0])

FAdd(a, b) ==
    LET e == IF a.e < b.e THEN a.e ELSE b.e
    IN  Norm([m |-> a.m * Pow10(a.e - e) + b.m * Pow10(b.e - e), e |-> e])

FMul(a, b) == Norm([m |-> a.m * b.m, e |-> a.e + b.e])

\* std::pow(10, x) for an integer x
FPow10(x) == [m |-> 1, e |-> x]

(***************************************************************************)
(* Storing an integer into a T object, and T's arithmetic.                 *)
(***************************************************************************)
\* a mutant of Convert: the value saturates at T's limits instead of wrapping
Convert_Saturating(T, x) ==
    IF is_floating_point(T) THEN FInt(x)
    ELSE IF x > TypeMax(T) THEN TypeMax(T)
    ELSE IF x < TypeMin(T) THEN TypeMin(T)
    ELSE x

\* the conversion of the integer x to T
Convert(T, x) ==
    IF is_floating_point(T) THEN FInt(x)
    ELSE IF T.signed
         THEN ((x + Pow2(T.bits - 1)) % Pow2(T.bits)) - Pow2(T.bits - 1)
         ELSE x % Pow2(T.bits)

\* the bits of an integral T value, as an unsigned number
Bits(T, x) == x % Pow2(T.bits)

RECURSIVE BitOr(_, _)
BitOr(a, b) ==
    IF a = 0 THEN b
    ELSE IF b = 0 THEN a
    ELSE (IF a % 2 = 1 \/ b % 2 = 1 THEN 1 ELSE 0) + 2 * BitOr(a \div 2, b \div 2)

Zero(T) == Convert(T, 0)

\* number * k + d computed in T (k an integer constant, d a T value)
MulAdd(T, number, k, d) ==
    IF is_floating_point(T) THEN FAdd(FMul(number, FInt(k)), d)
    ELSE Convert(T, number * k + d)

\* (number << sh) | d for an integral T
ShiftOr(T, number, sh, d) ==
    Convert(T, BitOr(Bits(T, number * Pow2(sh)), Bits(T, d)))

\* a mutant of ShiftAdd10: (number << 3) + (number << 2) + d
ShiftAdd10_Shift2(T, number, d) ==
    Convert(T, number * Pow2(3) + number * Pow2(2) + d)

\* (number << 3) + (number << 1) + d for an integral T
ShiftAdd10(T, number, d) ==
    Convert(T, number * Pow2(3) + number * Pow2(1) + d)

\* number * sign, sign one of -1, 0, 1
MulSign(T, number, sign) ==
    IF is_floating_point(T) THEN FMul(number, FInt(sign))
    ELSE Convert(T, number * sign)


(***************************************************************************)
(* The sources a call is compiled from.  include/seval.hpp selects its     *)
(* loops with __cplusplus: "inc17" is that header built as C++17 or later, *)
(* "inc11" the same header built as C++11/14; "root" is src/seval.hpp,     *)
(* which has evaluate only.                                                *)
(***************************************************************************)
Builds == {"inc17", "inc11", "root"}
BuildsN == {"inc17", "inc11"}

SIZE_MAX == 2147483647

SIGN_NEGATIVE == -1
SIGN_POSITIVE == 1
SIGN_NONE == 0

inc_(i, cnt) == i + cnt
skip_(i, cnt) == inc_(i, cnt)
\* a mutant of next_: the cursor stays where it is
next_Stay(i) == i

next_(i) == inc_(i, 1)

get_sign(str, i) ==
    IF CharAt(str, i) = "-" THEN SIGN_NEGATIVE
    ELSE IF CharAt(str, i) = "+" THEN SIGN_POSITIVE
    ELSE SIGN_NONE

is_binary_ch(literal) == literal = "0" \/ literal = "1"
is_decimal_ch(literal) == Ord(literal) >= Ord("0") /\ Ord(literal) <= Ord("9")
is_lower_hex_ch(literal) == Ord(literal) >= Ord("a") /\ Ord(literal) <= Ord("f")
is_upper_hex_ch(literal) == Ord(literal) >= Ord("A") /\ Ord(literal) <= Ord("F")
is_hexadecimal_ch(literal) ==
    is_decimal_ch(literal) \/ is_lower_hex_ch(literal) \/ is_upper_hex_ch(literal)

evaluate_decimal_ch(T, ch) == Convert(T, Ord(ch) - Ord("0"))
evaluate_lower_hex_ch(T, ch) == Convert(T, Ord(ch) - Ord("a") + 10)
\* a mutant of evaluate_upper_hex_ch: the + 10 is missing
evaluate_upper_hex_ch_NoTen(T, ch) == Convert(T, Ord(ch) - Ord("A"))

evaluate_upper_hex_ch(T, ch) == Convert(T, Ord(ch) - Ord("A") + 10)
evaluate_hexadecimal_ch(T, ch) ==
    IF is_decimal_ch(ch) THEN evaluate_decimal_ch(T, ch)
    ELSE IF is_lower_hex_ch(ch) THEN evaluate_lower_hex_ch(T, ch)
    ELSE IF is_upper_hex_ch(ch) THEN evaluate_upper_hex_ch(T, ch)
    ELSE Zero(T)
evaluate_binary_ch(T, ch) ==
    IF is_binary_ch(ch) THEN evaluate_decimal_ch(T, ch) ELSE Zero(T)

has_hexadecimal_prefix(literal, i) ==
    CharAt(literal, i) = "0"
    /\ (CharAt(literal, i + 1) = "x" \/ CharAt(literal, i + 1) = "X")
has_binary_prefix(literal, i) ==
    CharAt(literal, i) = "0"
    /\ (CharAt(literal, i + 1) = "b" \/ CharAt(literal, i + 1) = "B")

\* mutants of get_cnti: the policy is ignored, one way and the other
get_cnti_NeverCharged(i, consideSignAndPrefixInMaxLength) == 0
get_cnti_AlwaysCharged(i, consideSignAndPrefixInMaxLength) == i

\* the value cnt is given at the start of every bounded stage
get_cnti(i, consideSignAndPrefixInMaxLength) ==
    IF consideSignAndPrefixInMaxLength THEN i ELSE 0
\* a mutant of cnti_can_iterate: the loop stops one character early
cnti_can_iterate_OneEarly(cnt, maxLength) == cnt + 1 < maxLength

\* a mutant of cnti_can_iterate: the loop goes on one character too far
cnti_can_iterate_Inclusive(cnt, maxLength) == cnt <= maxLength

cnti_can_iterate(cnt, maxLength) == cnt < maxLength

(***************************************************************************)
(* The digit loops: the test of the character under the cursor and the     *)
(* update of the accumulator, per header and language standard.            *)
(***************************************************************************)
decimal_digit_test(build, ch) ==
    ch # NUL /\ (IF build = "inc17" THEN is_hexadecimal_ch(ch) ELSE is_decimal_ch(ch))

decimal_digit_body(build, T, number, ch) ==
    IF build = "inc17" /\ is_integral(T)
    THEN ShiftAdd10(T, number, evaluate_decimal_ch(T, ch))
    ELSE MulAdd(T, number, 10, evaluate_decimal_ch(T, ch))

hexadecimal_digit_test(build, ch) == ch # NUL /\ is_hexadecimal_ch(ch)

hexadecimal_digit_body(build, T, number, ch) ==
    IF build = "inc17"
    THEN IF is_integral(T)
         THEN ShiftOr(T, number, 4, evaluate_hexadecimal_ch(T, ch))
         ELSE number
    ELSE MulAdd(T, number, 16, evaluate_hexadecimal_ch(T, ch))

binary_digit_test(build, ch) == ch # NUL /\ is_binary_ch(ch)

binary_digit_body(build, T, number, ch) ==
    IF build = "inc11"
    THEN MulAdd(T, number, 2, evaluate_binary_ch(T, ch))
    ELSE IF is_integral(T)
         THEN ShiftOr(T, number, 1,
                      IF build = "inc17" THEN evaluate_binary_ch(T, ch)
                                         ELSE evaluate_decimal_ch(T, ch))
         ELSE number

floatpoint_digit_test(ch) == ch # NUL /\ is_decimal_ch(ch)

\* a mutant of floatpoint_digit_body: the digit is added at place value 1
floatpoint_digit_body_NoPlace(T, number, decimalPlace, ch) ==
    FAdd(number, evaluate_decimal_ch(T, ch))

\* number += digit * decimalPlace
floatpoint_digit_body(T, number, decimalPlace, ch) ==
    FAdd(number, FMul(evaluate_decimal_ch(T, ch), decimalPlace))

exponent_digit_test(ch) == ch # NUL /\ is_decimal_ch(ch)

\* exponent is an int: (exponent << 3) + (exponent << 1) + d, or exponent * 10 + d
exponent_digit_body(build, exponent, ch) ==
    IF build = "inc17"
    THEN exponent * Pow2(3) + exponent * Pow2(1) + (Ord(ch) - Ord("0"))
    ELSE exponent * 10 + (Ord(ch) - Ord("0"))

(***************************************************************************)
(* The state: the call and its locals.                                     *)
(***************************************************************************)
VARIABLES call, scan

vars == <<call, scan>>

bounded(c) == c.entry = "evaluate_n"

\* the scan having read str[k]: rd is the highest position read so far
Saw(s, k) == [s EXCEPT !.rd = IF k > @ THEN k ELSE @]

\* the locals at the entry of evaluate / evaluate_n
Entry(c) ==
    [pc |-> "sign", i |-> 0, number |-> Zero(c.T), sign |-> SIGN_POSITIVE,
     base |-> 0, cnt |-> 0, decimalPlace |-> FInt(0),
     expSign |-> SIGN_POSITIVE, exponent |-> 0, rd |-> -1,
     result |-> Zero(c.T)]

(***************************************************************************)
(* The statements of evaluate and evaluate_n, each a function from the     *)
(* locals before it to the locals after it.                                *)
(***************************************************************************)
\* a mutant of sign_stage: the sign character is taken whatever consideSign is
sign_stage_AlwaysTaken(c, s) ==
    LET intermediateSign == get_sign(c.str, s.i)
    IN  IF intermediateSign # SIGN_NONE
        THEN [Saw(s, s.i) EXCEPT !.sign = intermediateSign,
                                 !.i = skip_(s.i, 1), !.pc = "prefix"]
        ELSE [Saw(s, s.i) EXCEPT !.pc = "prefix"]

\* if (consideSign) { ... get_sign ... skip_(i, 1) }
sign_stage(c, s) ==
    IF c.consideSign
    THEN LET intermediateSign == get_sign(c.str, s.i)
         IN  IF intermediateSign # SIGN_NONE
             THEN [Saw(s, s.i) EXCEPT !.sign = intermediateSign,
                                      !.i = skip_(s.i, 1), !.pc = "prefix"]
             ELSE [Saw(s, s.i) EXCEPT !.pc = "prefix"]
    ELSE [s EXCEPT !.pc = "prefix"]

\* a mutant of prefix_reads: str[i + 1] is read whatever str[i] is
prefix_reads_NoShortCircuit(c, s) ==
    IF c.consideBinary \/ c.consideHex THEN Saw(s, s.i + 1) ELSE s

\* the positions the prefix tests read: str[i + 1] only after str[i] == '0'
prefix_reads(c, s) ==
    IF c.consideBinary \/ c.consideHex
    THEN IF CharAt(c.str, s.i) = "0" THEN Saw(s, s.i + 1) ELSE Saw(s, s.i)
    ELSE s

\* the if / else if / else that picks the integer loop, up to the loop's head
prefix_stage(c, s) ==
    LET r == prefix_reads(c, s)
        base == IF c.consideBinary /\ has_binary_prefix(c.str, s.i) THEN 2
                ELSE IF c.consideHex /\ has_hexadecimal_prefix(c.str, s.i) THEN 16
                ELSE 10
        i == IF base = 10 THEN s.i ELSE skip_(s.i, 2)
    IN  [r EXCEPT !.base = base, !.i = i, !.pc = "int",
                  !.cnt = IF bounded(c)
                          THEN get_cnti(i, c.consideSignAndPrefixInMaxLength)
                          ELSE @]

\* the condition of the integer loop of the base in use
integer_test(c, s) ==
    LET ch == CharAt(c.str, s.i)
    IN  /\ CASE s.base = 2  -> binary_digit_test(c.build, ch)
             [] s.base = 16 -> hexadecimal_digit_test(c.build, ch)
             [] OTHER       -> decimal_digit_test(c.build, ch)
        /\ bounded(c) => cnti_can_iterate(s.cnt, c.maxLength)

\* one iteration of the integer loop
integer_digit(c, s) ==
    LET ch == CharAt(c.str, s.i)
    IN  [Saw(s, s.i) EXCEPT
            !.number = CASE s.base = 2  -> binary_digit_body(c.build, c.T, @, ch)
                         [] s.base = 16 -> hexadecimal_digit_body(c.build, c.T, @, ch)
                         [] OTHER       -> decimal_digit_body(c.build, c.T, @, ch),
            !.i = next_(@),
            !.cnt = IF bounded(c) THEN inc_(@, 1) ELSE @]

\* the integer loop's exit
integer_end(c, s) == [Saw(s, s.i) EXCEPT !.pc = "dot"]

\* if (is_floating_point && consideFloatPoint && str[i] == '.' [&& maxLength > i])
dot_test(c, s) ==
    /\ is_floating_point(c.T)
    /\ c.consideFloatPoint
    /\ CharAt(c.str, s.i) = "."
    /\ bounded(c) => c.maxLength > s.i

dot_stage(c, s) ==
    LET r == IF is_floating_point(c.T) /\ c.consideFloatPoint
             THEN Saw(s, s.i) ELSE s
    IN  IF dot_test(c, s)
        THEN LET i == next_(s.i)
             IN  [r EXCEPT !.i = i, !.decimalPlace = [m |-> 1, e |-> -1],
                           !.pc = "frac",
                           !.cnt = IF bounded(c)
                                   THEN get_cnti(i, c.consideSignAndPrefixInMaxLength)
                                   ELSE @]
        ELSE [r EXCEPT !.pc = "exp"]

fraction_test(c, s) ==
    /\ floatpoint_digit_test(CharAt(c.str, s.i))
    /\ bounded(c) => cnti_can_iterate(s.cnt, c.maxLength)

fraction_digit(c, s) ==
    LET ch == CharAt(c.str, s.i)
    IN  [Saw(s, s.i) EXCEPT
            !.number = floatpoint_digit_body(c.T, @, s.decimalPlace, ch),
            !.decimalPlace = FMul(@, [m |-> 1, e |-> -1]),
            !.i = next_(@),
            !.cnt = IF bounded(c) THEN inc_(@, 1) ELSE @]

fraction_end(c, s) == [Saw(s, s.i) EXCEPT !.pc = "exp"]

\* a mutant of exponent_enabled: consideFloatPoint is not asked
exponent_enabled_OwnFlagOnly(c) ==
    is_floating_point(c.T) /\ c.consideExponent

\* if (is_floating_point && consideFloatPoint && consideExponent)
exponent_enabled(c) ==
    is_floating_point(c.T) /\ c.consideFloatPoint /\ c.consideExponent

\* the call of evaluate_exponent_literal[_n], up to the test of the sign
exponent_mark(c, s) ==
    IF exponent_enabled(c)
    THEN LET cnt == IF bounded(c)
                    THEN get_cnti(s.i, c.consideSignAndPrefixInMaxLength)
                    ELSE s.cnt
         IN  IF CharAt(c.str, s.i) = "e" \/ CharAt(c.str, s.i) = "E"
             THEN [Saw(s, s.i) EXCEPT !.i = next_(@),
                                      !.cnt = IF bounded(c) THEN inc_(cnt, 1) ELSE @,
                                      !.expSign = SIGN_POSITIVE,
                                      !.pc = "expsign"]
             ELSE [Saw(s, s.i) EXCEPT !.cnt = cnt, !.pc = "ret"]
    ELSE [s EXCEPT !.pc = "ret"]

\* if (str[i] == '-') ... else if (str[i] == '+') ...; int exponent = 0
exponent_sign(c, s) ==
    LET ch == CharAt(c.str, s.i)
        r == [Saw(s, s.i) EXCEPT !.exponent = 0, !.pc = "expdigits"]
    IN  IF ch = "-"
        THEN [r EXCEPT !.expSign = SIGN_NEGATIVE, !.i = next_(@),
                       !.cnt = IF bounded(c) THEN inc_(@, 1) ELSE @]
        ELSE IF ch = "+"
        THEN [r EXCEPT !.i = next_(@),
                       !.cnt = IF bounded(c) THEN inc_(@, 1) ELSE @]
        ELSE r

exponent_test(c, s) ==
    /\ exponent_digit_test(CharAt(c.str, s.i))
    /\ bounded(c) => cnti_can_iterate(s.cnt, c.maxLength)

exponent_digit(c, s) ==
    [Saw(s, s.i) EXCEPT
        !.exponent = exponent_digit_body(c.build, @, CharAt(c.str, s.i)),
        !.i = next_(@),
        !.cnt = IF bounded(c) THEN inc_(@, 1) ELSE @]

\* number *= std::pow(10, expSign * exponent)
exponent_end(c, s) ==
    [Saw(s, s.i) EXCEPT !.number = FMul(@, FPow10(s.expSign * s.exponent)),
                        !.pc = "ret"]

\* a mutant of return_stage: the sign is never applied
return_stage_NoSign(c, s) ==
    [s EXCEPT !.result = s.number, !.pc = "done"]

\* return consideSign ? number * sign : number
return_stage(c, s) ==
    [s EXCEPT !.result = IF c.consideSign THEN MulSign(c.T, s.number, s.sign)
                         ELSE s.number,
              !.pc = "done"]

\* the statement at s.pc
Step(c, s) ==
    CASE s.pc = "sign"      -> sign_stage(c, s)
      [] s.pc = "prefix"    -> prefix_stage(c, s)
      [] s.pc = "int"       -> IF integer_test(c, s) THEN integer_digit(c, s)
                               ELSE integer_end(c, s)
      [] s.pc = "dot"       -> dot_stage(c, s)
      [] s.pc = "frac"      -> IF fraction_test(c, s) THEN fraction_digit(c, s)
                               ELSE fraction_end(c, s)
      [] s.pc = "exp"       -> exponent_mark(c, s)
      [] s.pc = "expsign"   -> exponent_sign(c, s)
      [] s.pc = "expdigits" -> IF exponent_test(c, s) THEN exponent_digit(c, s)
                               ELSE exponent_end(c, s)
      [] s.pc = "ret"       -> return_stage(c, s)
      [] OTHER              -> s

\* the locals when the call started at s returns
RECURSIVE Run(_, _)
Run(c, s) == IF s.pc = "done" THEN s ELSE Run(c, Step(c, s))

(***************************************************************************)
(* The calls the model makes.                                              *)
(***************************************************************************)
Alphabet == {"-", "+", "0", "1", "7", "a", "b", "e", "x", "."}

\* every source of at most n characters of the alphabet
Strings(n) == UNION {[1..k -> Alphabet] : k \in 0..n}

\* the literals of src/test.cpp and of the specification's examples
Literals ==
    { <<"1","2","7">>, <<"2","5","5">>, <<"-","1","2","8">>, <<"0">>,
      <<"3","2","7","6","7">>, <<"6","5","5","3","5">>,
      <<"-","3","2","7","6","8">>,
      <<"1","2","3">>, <<"0","x","1","2","3">>, <<"-","1","2","3">>,
      <<"-","0","x","1","2","3">>, <<"0","x","A","3","F">>,
      <<"0","x","1","a","F">>, <<"0","X","1","A","f">>,
      <<"0","b","1","1","0","1">>, <<"0","b","1","0","1","0","1","0">>,
      <<"0","B","1","0","1","0","1","0">>,
      <<"-","0","b","1","1","0","1">>,
      <<"0","x","1","A","3">>, <<"1","2","3","4","5">>,
      <<"0","x","1","2","3","4","5">>, <<"-","1">>,
      <<"0","b","1","1">>, <<"0","x","1","F">>,
      <<"3",".","1","4">>, <<"-","3",".","1","4">>,
      <<"3",".","1","4","e","2">>, <<"-","3",".","1","4","E","-","2">>,
      <<"1","e","2">>, <<"3","e","2">>,
      <<"0","b","1","0","1">>, <<"0","b","1","0","1",".","5">>,
      <<"0","x","1","A">>, <<"0","x","1","A",".","5">>,
      <<"1",".","5",".","5">>, <<"1","e","2",".","5">>,
      <<"1","2","a">>, <<"7","F">>,
      <<"0","b","1","0","0","0","0","0","0","0","0">>,
      <<"0","b","1","1","1","1","1","1","1","1">>,
      <<"9","9","9","9","9">>, <<"-","9","9","9","9","9">>,
      <<"0","x","f","f","f","f","f">>, <<"-","0","x","1","A","3">>,
      <<"-","0","b","1","0","1","0","1","0">>, <<"+","1","2","3">>,
      <<"-","1",".","5","e","1">>, <<"1","7",".","2","5","e","-","1">>,
      <<"0","b","1","1","e","1">> }

\* the literals tried under every combination of the flags
FlagLiterals ==
    { <<"1","e","2">>, <<"0","b","1","1">>, <<"0","x","1","F">>,
      <<"0","B","1","1">>, <<"0","X","1","F">>,
      <<"-","3",".","1","4","E","-","2">>, <<"3",".","1","4","e","2">>,
      <<"-","0","x","1","2","3">>, <<"-","0","b","1","1","0","1">>,
      <<"+","1",".","5">>, <<"0","x","1","A",".","5">>,
      <<"0","b","1","0","1",".","5">>, <<"-","1","2","8">> }

Flags == [consideSign : BOOLEAN, consideFloatPoint : BOOLEAN,
          consideHex : BOOLEAN, consideBinary : BOOLEAN,
          consideExponent : BOOLEAN]

DefaultFlags == [consideSign |-> TRUE, consideFloatPoint |-> TRUE,
                 consideHex |-> TRUE, consideBinary |-> TRUE,
                 consideExponent |-> TRUE]

Call(build, entry, T, str, maxLength, charge, f) ==
    [build |-> build, entry |-> entry, T |-> T, str |-> str,
     maxLength |-> maxLength, consideSignAndPrefixInMaxLength |-> charge,
     consideSign |-> f.consideSign, consideFloatPoint |-> f.consideFloatPoint,
     consideHex |-> f.consideHex, consideBinary |-> f.consideBinary,
     consideExponent |-> f.consideExponent]

FlagsOf(c) ==
    [consideSign |-> c.consideSign, consideFloatPoint |-> c.consideFloatPoint,
     consideHex |-> c.consideHex, consideBinary |-> c.consideBinary,
     consideExponent |-> c.consideExponent]

\* the same call as c on another source
WithStr(c, str) == [c EXCEPT !.str = str]

\* the types given to every source; the literals are given every type
ScanTypes == {Int8, UInt8, Float}
ScanTypesN == {Int8, Float}

\* the alphabet of the bounded and of the flagged calls
AlphabetN == Alphabet \ {"+", "a"}
StringsN(n) == UNION {[1..k -> AlphabetN] : k \in 0..n}

\* the maxLength values tried on a source: the finite ones, and the default
Caps(n) == 0..n \cup {SIZE_MAX}

\* a maxLength that cannot bind on the source s
LooseCaps(s) == {Len(s), Len(s) + 1, SIZE_MAX}

\* call is evaluate<T>(str, flags...)
CallsEvaluate(builds, types, strs, flags) ==
    \E b \in builds, T \in types, s \in strs, f \in flags :
        call = Call(b, "evaluate", T, s, SIZE_MAX, TRUE, f)

\* call is evaluate_n<T>(str, maxLength, charge, flags...)
CallsEvaluateN(builds, types, strs, caps, flags) ==
    \E b \in builds, T \in types, s \in strs, ch \in BOOLEAN, f \in flags :
        \E n \in caps[s] :
            call = Call(b, "evaluate_n", T, s, n, ch, f)

(***************************************************************************)
(* The state machine: one call, statement by statement.                    *)
(***************************************************************************)
\* evaluate with the default flags
Init ==
    /\ \/ CallsEvaluate(Builds, ScanTypes, Strings(MaxLen), {DefaultFlags})
       \/ CallsEvaluate(Builds, Types, Literals, {DefaultFlags})
    /\ scan = Entry(call)

\* evaluate_n with the default flags
InitN ==
    /\ \/ CallsEvaluateN(BuildsN, ScanTypesN, StringsN(MaxLenN),
                         [s \in StringsN(MaxLenN) |-> Caps(MaxLenN + 1)],
                         {DefaultFlags})
       \/ CallsEvaluateN(BuildsN, Types, Literals,
                         [s \in Literals |-> Caps(MaxCap)], {DefaultFlags})
    /\ scan = Entry(call)

\* evaluate and evaluate_n under every combination of the five flags, the
\* bounded calls with a maxLength that cannot bind
InitF ==
    /\ \/ CallsEvaluate(Builds, ScanTypesN, StringsN(MaxLenF), Flags)
       \/ CallsEvaluate(Builds, Types, FlagLiterals, Flags)
       \/ CallsEvaluateN(BuildsN, ScanTypesN, StringsN(MaxLenF),
                         [s \in StringsN(MaxLenF) |-> {Len(s)}], Flags)
       \/ CallsEvaluateN(BuildsN, Types, FlagLiterals,
                         [s \in FlagLiterals |-> LooseCaps(s)], Flags)
    /\ scan = Entry(call)

GetSign ==
    /\ scan.pc = "sign"
    /\ scan' = sign_stage(call, scan)
    /\ UNCHANGED call

Prefix ==
    /\ scan.pc = "prefix"
    /\ scan' = prefix_stage(call, scan)
    /\ UNCHANGED call

IntegerDigit ==
    /\ scan.pc = "int"
    /\ integer_test(call, scan)
    /\ scan' = integer_digit(call, scan)
    /\ UNCHANGED call

IntegerEnd ==
    /\ scan.pc = "int"
    /\ ~integer_test(call, scan)
    /\ scan' = integer_end(call, scan)
    /\ UNCHANGED call

Dot ==
    /\ scan.pc = "dot"
    /\ scan' = dot_stage(call, scan)
    /\ UNCHANGED call

FractionDigit ==
    /\ scan.pc = "frac"
    /\ fraction_test(call, scan)
    /\ scan' = fraction_digit(call, scan)
    /\ UNCHANGED call

FractionEnd ==
    /\ scan.pc = "frac"
    /\ ~fraction_test(call, scan)
    /\ scan' = fraction_end(call, scan)
    /\ UNCHANGED call

ExponentMark ==
    /\ scan.pc = "exp"
    /\ scan' = exponent_mark(call, scan)
    /\ UNCHANGED call

ExponentSign ==
    /\ scan.pc = "expsign"
    /\ scan' = exponent_sign(call, scan)
    /\ UNCHANGED call

ExponentDigit ==
    /\ scan.pc = "expdigits"
    /\ exponent_test(call, scan)
    /\ scan' = exponent_digit(call, scan)
    /\ UNCHANGED call

ExponentEnd ==
    /\ scan.pc = "expdigits"
    /\ ~exponent_test(call, scan)
    /\ scan' = exponent_end(call, scan)
    /\ UNCHANGED call

Return ==
    /\ scan.pc = "ret"
    /\ scan' = return_stage(call, scan)
    /\ UNCHANGED call

Next ==
    \/ GetSign \/ Prefix \/ IntegerDigit \/ IntegerEnd \/ Dot
    \/ FractionDigit \/ FractionEnd \/ ExponentMark \/ ExponentSign
    \/ ExponentDigit \/ ExponentEnd \/ Return

Spec == Init /\ [][Next]_vars

SpecN == InitN /\ [][Next]_vars

SpecF == InitF /\ [][Next]_vars

\* the call has returned
Done == scan.pc = "done"

\* what the call c returns, and where its cursor stops
Result(c) == Run(c, Entry(c)).result
Cursor(c) == Run(c, Entry(c)).i

\* the state machine and the function Run agree on every step
StepAgrees == [][scan' = Step(call, scan)]_vars

(***************************************************************************)
(* Notions the properties are stated with.                                 *)
(***************************************************************************)
IsEvaluate == call.entry = "evaluate"
IsEvaluateN == call.entry = "evaluate_n"
Defaults == FlagsOf(call) = DefaultFlags

DigitChars == <<"0", "1", "2", "3", "4", "5", "6", "7", "8", "9">>

\* the decimal text of a natural number, and of an integer
RECURSIVE DecimalOfNat(_)
DecimalOfNat(n) ==
    IF n < 10 THEN <<DigitChars[n + 1]>>
    ELSE Append(DecimalOfNat(n \div 10), DigitChars[(n % 10) + 1])

DecimalOf(n) == IF n < 0 THEN <<"-">> \o DecimalOfNat(0 - n) ELSE DecimalOfNat(n)

\* the value of one digit, read off the digit's place in 0..9, a..f / A..F
DigitValue(ch) ==
    CHOOSE v \in 0..15 :
        \/ v < 10 /\ DigitChars[v + 1] = ch
        \/ v >= 10 /\ <<"a", "b", "c", "d", "e", "f">>[v - 9] = ch
        \/ v >= 10 /\ <<"A", "B", "C", "D", "E", "F">>[v - 9] = ch

IsDigitOf(base, ch) ==
    \E v \in 0..(base - 1) :
        \/ v < 10 /\ DigitChars[v + 1] = ch
        \/ v >= 10 /\ <<"a", "b", "c", "d", "e", "f">>[v - 9] = ch
        \/ v >= 10 /\ <<"A", "B", "C", "D", "E", "F">>[v - 9] = ch

\* the number a run of digits denotes in a base
RECURSIVE ValueIn(_, _)
ValueIn(base, digits) ==
    IF digits = <<>> THEN 0
    ELSE ValueIn(base, SubSeq(digits, 1, Len(digits) - 1)) * base
         + DigitValue(digits[Len(digits)])

\* a source cut into its sign, its prefix's base and the rest
HasSignChar(str) == Len(str) >= 1 /\ str[1] \in {"-", "+"}
Unsigned(str) == IF HasSignChar(str) THEN Tail(str) ELSE str
SignValue(str) == IF Len(str) >= 1 /\ str[1] = "-" THEN -1 ELSE 1
BaseOf(str) ==
    LET u == Unsigned(str)
    IN  IF Len(u) >= 2 /\ u[1] = "0" /\ u[2] \in {"b", "B"} THEN 2
        ELSE IF Len(u) >= 2 /\ u[1] = "0" /\ u[2] \in {"x", "X"} THEN 16
        ELSE 10
DigitsOf(str) ==
    LET u == Unsigned(str)
    IN  IF BaseOf(str) = 10 THEN u ELSE SubSeq(u, 3, Len(u))

\* an optional sign, an optional prefix and nothing but digits of the base
IsIntegerLiteral(str) ==
    \A k \in 1..Len(DigitsOf(str)) : IsDigitOf(BaseOf(str), DigitsOf(str)[k])

\* a signed integral type in which nothing the model computes wraps
Wide == [kind |-> "int", bits |-> 30, signed |-> TRUE]

\* the call c on the type T
WithT(c, T) == [c EXCEPT !.T = T]

\* no accumulation and no sign multiplication of the call c overflowed c.T
NoOverflow(c) ==
    is_integral(c.T) => Result(WithT(c, Wide)) = Result(c)

\* the negation of a value, not reduced to the type
Negated(T, v) == IF is_floating_point(T) THEN [v EXCEPT !.m = 0 - v.m] ELSE 0 - v

\* evaluate<T>(str) with the flags of the call c
AsEvaluate(c, str) ==
    [c EXCEPT !.entry = "evaluate", !.str = str, !.maxLength = SIZE_MAX,
              !.consideSignAndPrefixInMaxLength = TRUE]

(***************************************************************************)
(* C1.  For every integral type, evaluate of the decimal text of the       *)
(* type's maximum returns the maximum, and evaluate of the decimal text of *)
(* its minimum returns the minimum.                                        *)
(***************************************************************************)
C1_MaxMinRoundTrip ==
    (Done /\ IsEvaluate /\ Defaults /\ is_integral(call.T)) =>
        /\ call.str = DecimalOf(TypeMax(call.T)) => scan.result = TypeMax(call.T)
        /\ call.str = DecimalOf(TypeMin(call.T)) => scan.result = TypeMin(call.T)

\* evaluate<int8_t>("-128") has returned -128
C1_Witness ==
    /\ Done /\ IsEvaluate /\ Defaults /\ call.T = Int8
    /\ call.str = <<"-", "1", "2", "8">>
    /\ call.str = DecimalOf(TypeMin(call.T))
    /\ scan.result = -128

(***************************************************************************)
(* C2.  Sign independence: for a literal L that starts with no sign and a  *)
(* signed target type, with the default flags and no overflow,             *)
(* evaluate("-" + L) is the negation of evaluate(L) and evaluate("+" + L)  *)
(* is evaluate(L).                                                         *)
(***************************************************************************)
C2_SignIndependence ==
    (/\ Done /\ IsEvaluate /\ Defaults /\ call.T.signed
     /\ HasSignChar(call.str)
     /\ ~HasSignChar(Tail(call.str))
     /\ NoOverflow(call)
     /\ NoOverflow(WithStr(call, Tail(call.str)))) =>
        scan.result = IF call.str[1] = "-"
                      THEN Negated(call.T, Result(WithStr(call, Tail(call.str))))
                      ELSE Result(WithStr(call, Tail(call.str)))

\* evaluate<int8_t>("-17") has returned -17, and evaluate<int8_t>("17") is 17
C2_Witness ==
    /\ Done /\ IsEvaluate /\ Defaults /\ call.T = Int8
    /\ call.str = <<"-", "1", "7">>
    /\ NoOverflow(call)
    /\ Result(WithStr(call, Tail(call.str))) = 17
    /\ scan.result = -17

(***************************************************************************)
(* C3.  For an integral type and the default flags, an optional sign, a    *)
(* prefix and a run of digits evaluate to the run's value in the prefix's  *)
(* base: 16 after 0x / 0X, with a..f and A..F both worth 10..15, and 2     *)
(* after 0b / 0B.                                                          *)
(***************************************************************************)
C3_PrefixedValue ==
    (/\ Done /\ IsEvaluate /\ Defaults /\ is_integral(call.T)
     /\ BaseOf(call.str) # 10
     /\ IsIntegerLiteral(call.str)) =>
        scan.result = Convert(call.T, SignValue(call.str)
                                      * ValueIn(BaseOf(call.str), DigitsOf(call.str)))

\* the four examples, for a 16 bit int
C3_Examples ==
    (Done /\ IsEvaluate /\ Defaults /\ call.T = Int16) =>
        /\ call.str = <<"0", "x", "1", "a", "F">> => scan.result = 431
        /\ call.str = <<"0", "X", "1", "A", "f">> => scan.result = 431
        /\ call.str = <<"-", "0", "x", "1", "2", "3">> => scan.result = -291
        /\ call.str = <<"0", "b", "1", "0", "1", "0", "1", "0">> => scan.result = 42
        /\ call.str = <<"0", "B", "1", "0", "1", "0", "1", "0">> => scan.result = 42
        /\ call.str = <<"-", "0", "b", "1", "1", "0", "1">> => scan.result = -13

C3_PrefixedValueAndExamples == C3_PrefixedValue /\ C3_Examples

\* evaluate<int16_t>("0x1aF") has returned 431
C3_Witness ==
    /\ Done /\ IsEvaluate /\ Defaults /\ call.T = Int16
    /\ call.str = <<"0", "x", "1", "a", "F">>
    /\ IsIntegerLiteral(call.str) /\ BaseOf(call.str) = 16
    /\ scan.result = 431

(***************************************************************************)
(* C4.  Bounded scan, sign and prefix charged: for an integral type,       *)
(* evaluate_n(s, n, true) is evaluate of the first n characters of s.      *)
(***************************************************************************)
Min(a, b) == IF a < b THEN a ELSE b

FirstChars(str, n) == SubSeq(str, 1, Min(n, Len(str)))

C4_ChargedIsPrefix ==
    (/\ Done /\ IsEvaluateN /\ Defaults /\ is_integral(call.T)
     /\ call.consideSignAndPrefixInMaxLength) =>
        scan.result = Result(AsEvaluate(call, FirstChars(call.str, call.maxLength)))

\* the examples of src/test.cpp, for a 16 bit int
C4_Examples ==
    (/\ Done /\ IsEvaluateN /\ Defaults /\ call.T = Int16
     /\ call.consideSignAndPrefixInMaxLength /\ call.maxLength = 4) =>
        /\ call.str = <<"1", "2", "3", "4", "5">> => scan.result = 1234
        /\ call.str = <<"0", "x", "1", "A", "3">> => scan.result = 26
        /\ call.str = <<"0", "b", "1", "0", "1", "0", "1", "0">> => scan.result = 2

C4_ChargedIsPrefixAndExamples == C4_ChargedIsPrefix /\ C4_Examples

\* evaluate_n<int16_t>("0x1A3", 4) has returned 0x1A, leaving the digit 3 unread
C4_Witness ==
    /\ Done /\ IsEvaluateN /\ Defaults /\ call.T = Int16
    /\ call.consideSignAndPrefixInMaxLength /\ call.maxLength = 4
    /\ call.str = <<"0", "x", "1", "A", "3">>
    /\ scan.i = 4
    /\ scan.result = 26

(***************************************************************************)
(* C5.  Bounded scan, sign and prefix not charged: for an integral type,   *)
(* evaluate_n(s, n, false) takes the sign and the prefix for free and then *)
(* at most n digits of the integer digit run: it is evaluate of the sign,  *)
(* the prefix and the first n digits of the run.                           *)
(***************************************************************************)
\* the characters of the sign and of the prefix the call c consumes
SignAndPrefixLen(c) ==
    (IF c.consideSign /\ HasSignChar(c.str) THEN 1 ELSE 0)
    + (IF \/ c.consideBinary /\ BaseOf(c.str) = 2
          \/ c.consideHex /\ BaseOf(c.str) = 16 THEN 2 ELSE 0)

\* the sign, the prefix and the first n characters after them
SignPrefixAnd(c, n) == FirstChars(c.str, SignAndPrefixLen(c) + n)

\* the length of the integer digit run of the call c: up to where the
\* unbounded integer loop goes
IntegerRunLen(c) ==
    Cursor([AsEvaluate(c, c.str) EXCEPT !.consideFloatPoint = FALSE])
    - SignAndPrefixLen(c)

C5_Witness ==
    /\ Done /\ IsEvaluateN /\ Defaults /\ call.T = Int16
    /\ ~call.consideSignAndPrefixInMaxLength /\ call.maxLength = 3
    /\ call.str = <<"0", "x", "1", "A", "3">>
    /\ scan.i = 5
    /\ scan.result = 419

C6_LooseCapAgrees ==
    (Done /\ IsEvaluateN /\ call.maxLength >= Len(call.str)) =>
        /\ scan.result = Result(AsEvaluate(call, call.str))
        /\ scan.i = Cursor(AsEvaluate(call, call.str))

\* evaluate_n<float>("3.14e2", 6, false) has returned 314, as evaluate does,
\* having passed an integer, a fraction and an exponent digit run
C6_Witness ==
    /\ Done /\ IsEvaluateN /\ Defaults /\ call.T = Float
    /\ ~call.consideSignAndPrefixInMaxLength
    /\ call.str = <<"3", ".", "1", "4", "e", "2">>
    /\ call.maxLength = Len(call.str)
    /\ scan.i = 6
    /\ scan.result = FInt(314)
    /\ Result(AsEvaluate(call, call.str)) = FInt(314)

(***************************************************************************)
(* C7.  The scanner degrades to 0: evaluate of the empty source is 0, and  *)
(* evaluate of a source whose first character after an honoured sign is    *)
(* neither a base prefix nor a decimal digit is 0 with no digit consumed,  *)
(* the letters a..f and A..F included.  Stated here for the integral       *)
(* target types.                                                           *)
(***************************************************************************)
\* the cursor after the sign the call honours
AfterSign(c) == IF c.consideSign /\ HasSignChar(c.str) THEN 1 ELSE 0

C7_LeadingNonDigitIsZero ==
    (/\ Done /\ IsEvaluate /\ Defaults /\ is_integral(call.T)
     /\ ~IsDigitOf(10, CharAt(call.str, AfterSign(call)))) =>
        /\ scan.result = 0
        /\ scan.i = AfterSign(call)

IntegerOnly(c) ==
    [c EXCEPT !.consideFloatPoint = FALSE, !.consideExponent = FALSE]

DisabledPrefix(c) ==
    LET p == AfterSign(c)
    IN  /\ CharAt(c.str, p) = "0"
        /\ \/ ~c.consideBinary /\ CharAt(c.str, p + 1) \in {"b", "B"}
           \/ ~c.consideHex /\ CharAt(c.str, p + 1) \in {"x", "X"}

C9_DisabledPrefixIsZero ==
    (Done /\ IsEvaluate /\ is_integral(call.T) /\ DisabledPrefix(call)) =>
        /\ scan.result = 0
        /\ scan.i = AfterSign(call) + 1

(***************************************************************************)
(* C10.  Overflow wraps: for an unsigned type of width w, evaluate of a    *)
(* run of digits in base 10, 16 or 2 (with the matching prefix) is the     *)
(* number the run denotes modulo 2^w, and with a leading '-' its negation  *)
(* modulo 2^w.                                                             *)
(***************************************************************************)
C10_UnsignedWraps ==
    (/\ Done /\ IsEvaluate /\ Defaults
     /\ is_integral(call.T) /\ ~call.T.signed
     /\ IsIntegerLiteral(call.str)) =>
        scan.result = (SignValue(call.str)
                       * ValueIn(BaseOf(call.str), DigitsOf(call.str)))
                      % Pow2(call.T.bits)

\* evaluate<uint8_t>("777") has returned 777 - 3 * 256
C10_Witness ==
    /\ Done /\ IsEvaluate /\ Defaults /\ call.T = UInt8
    /\ call.str = <<"7", "7", "7">>
    /\ IsIntegerLiteral(call.str)
    /\ ValueIn(BaseOf(call.str), DigitsOf(call.str)) > TypeMax(call.T)
    /\ scan.result = 9

(***************************************************************************)
(* C11.  For a floating-point type and the default flags, a literal D.F of *)
(* decimal digits (with an optional sign) evaluates to the number D.F      *)
(* denotes: value(D) plus, for the k-th digit of F, the digit times        *)
(* 10^-k; so the result is within 1e-6 of the literal's real value, and    *)
(* "3.14" gives 3.14, "-3.14" gives -3.14.                                 *)
(***************************************************************************)
\* the place of the first '.' of a source that has one
DotAt(u) == CHOOSE k \in 1..Len(u) : u[k] = "." /\ \A j \in 1..(k - 1) : u[j] # "."

\* an optional sign, one decimal digit or more, a '.', decimal digits
IsDecimalFraction(str) ==
    LET u == Unsigned(str)
    IN  \E k \in 2..Len(u) :
            /\ u[k] = "."
            /\ \A j \in (1..Len(u)) \ {k} : IsDigitOf(10, u[j])

IntegerDigits(str) == SubSeq(Unsigned(str), 1, DotAt(Unsigned(str)) - 1)
FractionDigits(str) ==
    SubSeq(Unsigned(str), DotAt(Unsigned(str)) + 1, Len(Unsigned(str)))

\* the sum over k of the k-th digit of F times 10^-k
RECURSIVE FractionSum(_, _)
FractionSum(F, k) ==
    IF k > Len(F) THEN FInt(0)
    ELSE FAdd([m |-> DigitValue(F[k]), e |-> 0 - k], FractionSum(F, k + 1))

\* the real number the literal D.F denotes
RealValue(str) ==
    FMul(FInt(SignValue(str)),
         FAdd(FInt(ValueIn(10, IntegerDigits(str))),
              FractionSum(FractionDigits(str), 1)))

\* |a - b| <= 10^-6
Within1e6(a, b) ==
    LET d == FAdd(a, FMul(b, FInt(-1)))
        mag == IF d.m < 0 THEN 0 - d.m ELSE d.m
    IN  \/ d.m = 0
        \/ d.e <= -6 /\ mag <= Pow10(0 - 6 - d.e)

ExpAt(u) ==
    CHOOSE k \in 1..Len(u) :
        u[k] \in {"e", "E"} /\ \A j \in 1..(k - 1) : u[j] \notin {"e", "E"}

\* what stands before the exponent mark, and after it
MantissaOf(str) == SubSeq(str, 1, ExpAt(str) - 1)
ExponentOf(str) == SubSeq(str, ExpAt(str) + 1, Len(str))

\* decimal digits, one or more
IsDecimalRun(u) == Len(u) >= 1 /\ \A j \in 1..Len(u) : IsDigitOf(10, u[j])

\* [sign] digits ['.' digits] ('e' | 'E') [sign] digits
IsExponentLiteral(str) ==
    /\ \E k \in 1..Len(str) : str[k] \in {"e", "E"}
    /\ \/ IsDecimalRun(Unsigned(MantissaOf(str)))
       \/ IsDecimalFraction(MantissaOf(str))
    /\ IsDecimalRun(Unsigned(ExponentOf(str)))

\* the real number [sign] digits ['.' digits] denotes
MantissaValue(m) ==
    IF IsDecimalFraction(m) THEN RealValue(m)
    ELSE FInt(SignValue(m) * ValueIn(10, Unsigned(m)))

C12_ExponentScales ==
    (/\ Done /\ IsEvaluate /\ Defaults /\ is_floating_point(call.T)
     /\ IsExponentLiteral(call.str)) =>
        scan.result =
            FMul(MantissaValue(MantissaOf(call.str)),
                 FPow10(SignValue(ExponentOf(call.str))
                        * ValueIn(10, Unsigned(ExponentOf(call.str)))))

(***************************************************************************)
(* C13.  For a floating-point type, the binary digits after a 0b / 0B      *)
(* prefix are consumed, the cursor passing all of them, but they are not   *)
(* accumulated: the integer segment is 0, evaluate("0b101") is 0 and       *)
(* evaluate("0b101.5") is 0.5.                                             *)
(***************************************************************************)
\* how many characters from str[k] on (k counts from 0) are digits of the base
RECURSIVE DigitRunLen(_, _, _)
DigitRunLen(base, str, k) ==
    IF IsDigitOf(base, CharAt(str, k)) THEN 1 + DigitRunLen(base, str, k + 1)
    ELSE 0

C13_FloatBinaryNotAccumulated ==
    /\ (/\ IsEvaluate /\ Defaults /\ is_floating_point(call.T)
        /\ scan.pc = "dot" /\ scan.base = 2) =>
          /\ scan.i = AfterSign(call) + 2
                      + DigitRunLen(2, call.str, AfterSign(call) + 2)
          /\ scan.number = FInt(0)
    /\ (Done /\ IsEvaluate /\ Defaults /\ is_floating_point(call.T)) =>
          /\ call.str = <<"0", "b", "1", "0", "1">> => scan.result = FInt(0)
          /\ call.str = <<"0", "b", "1", "0", "1", ".", "5">> =>
                scan.result = [m |-> 5, e |-> -1]

(***************************************************************************)
(* C14.  For a floating-point type, the digits after a 0x / 0X prefix are  *)
(* accumulated in base 16 as for an integral type, and the decimal         *)
(* fractional stage follows: evaluate("0x1A") is 26 and                    *)
(* evaluate("0x1A.5") is 26.5.                                             *)
(***************************************************************************)
C14_FloatHexAccumulated ==
    /\ (/\ IsEvaluate /\ Defaults /\ is_floating_point(call.T)
        /\ scan.pc = "dot" /\ scan.base = 16) =>
          /\ scan.i = AfterSign(call) + 2
                      + DigitRunLen(16, call.str, AfterSign(call) + 2)
          /\ scan.number =
                FInt(ValueIn(16, SubSeq(call.str, AfterSign(call) + 3, scan.i)))
    /\ (Done /\ IsEvaluate /\ Defaults /\ is_floating_point(call.T)) =>
          /\ call.str = <<"0", "x", "1", "A">> => scan.result = FInt(26)
          /\ call.str = <<"0", "x", "1", "A", ".", "5">> =>
                scan.result = [m |-> 265, e |-> -1]

(***************************************************************************)
(* C15.  Cursor invariant: in every scan by evaluate or evaluate_n the     *)
(* cursor starts at 0, never decreases and never passes the sentinel, and  *)
(* every character read, the lookahead of the prefix tests and the reads   *)
(* after 'e' / 'E' and after the exponent's sign included, is at a         *)
(* position no greater than the sentinel's.                                *)
(***************************************************************************)
\* the position of the sentinel of the source
SentinelAt(c) == Len(c.str)

C15_CursorInvariant ==
    /\ [](scan.pc = "sign" => scan.i = 0)
    /\ [](scan.i >= 0 /\ scan.i <= SentinelAt(call))
    /\ [](scan.rd <= SentinelAt(call))
    /\ [][scan'.i >= scan.i]_vars

\* evaluate_n<float>("0e") built as C++11 has returned: the prefix test looked
\* ahead at the 'e', the exponent stage read the sentinel after the 'e', and
\* the cursor stopped on the sentinel
C15_Witness ==
    /\ Done /\ IsEvaluateN /\ Defaults /\ call.T = Float /\ call.build = "inc11"
    /\ call.str = <<"0", "e">>
    /\ scan.i = SentinelAt(call)
    /\ scan.rd = SentinelAt(call)

(***************************************************************************)
(* C16.  The decimal integer loop runs only while the character under the  *)
(* cursor is one of '0'..'9': for an unprefixed literal the integer stage  *)
(* ends after the longest leading run of decimal digits with that run's    *)
(* value ("12a" gives 12, "7F" gives 7), and every digit value the stage   *)
(* adds is in 0..9.                                                        *)
(***************************************************************************)
C16_DecimalLoopTakesDecimalDigits ==
    /\ (IsEvaluate /\ Defaults /\ scan.pc = "int" /\ scan.base = 10
        /\ integer_test(call, scan)) =>
          Ord(CharAt(call.str, scan.i)) - Ord("0") \in 0..9
    /\ (IsEvaluate /\ Defaults /\ scan.pc = "dot" /\ scan.base = 10) =>
          /\ scan.i = AfterSign(call) + DigitRunLen(10, call.str, AfterSign(call))
          /\ scan.number =
                Convert(call.T,
                        ValueIn(10, SubSeq(call.str, AfterSign(call) + 1, scan.i)))
    /\ (Done /\ IsEvaluate /\ Defaults /\ call.T = Int16) =>
          /\ call.str = <<"1", "2", "a">> => scan.result = 12
          /\ call.str = <<"7", "F">> => scan.result = 7

(***************************************************************************)
(* C17.  With the sign and the prefix charged, evaluate_n consumes a digit *)
(* of the integer, the fractional or the exponent stage only while the     *)
(* number of characters already passed is below maxLength; so, whenever a  *)
(* digit is consumed at all, the digits of the three stages together with  *)
(* the sign and the prefix characters are at most maxLength.               *)
(***************************************************************************)
\* the statement at s.pc is an iteration of one of the three digit loops
IsDigitStep(c, s) ==
    \/ s.pc = "int" /\ integer_test(c, s)
    \/ s.pc = "frac" /\ fraction_test(c, s)
    \/ s.pc = "expdigits" /\ exponent_test(c, s)

\* how many digits the call consumes from the locals s on
RECURSIVE DigitSteps(_, _)
DigitSteps(c, s) ==
    IF s.pc = "done" THEN 0
    ELSE (IF IsDigitStep(c, s) THEN 1 ELSE 0) + DigitSteps(c, Step(c, s))

\* how many digits the call consumes in its three stages together
DigitsConsumed(c) == DigitSteps(c, Entry(c))

Charged == IsEvaluateN /\ call.consideSignAndPrefixInMaxLength

C17_ChargedDigitsWithinCap ==
    /\ [][(Charged /\ scan.pc \in {"int", "frac", "expdigits"}
           /\ scan'.i = scan.i + 1) => scan.i < call.maxLength]_vars
    /\ []((Charged /\ Done /\ DigitsConsumed(call) >= 1) =>
            DigitsConsumed(call) + SignAndPrefixLen(call) <= call.maxLength)

\* evaluate_n<float>("-1.5e1", 4) has returned -1.5: the sign, an integer
\* digit and a fraction digit were taken, the exponent's digit was refused
C17_Witness ==
    /\ Charged /\ Done /\ Defaults /\ call.T = Float
    /\ call.str = <<"-", "1", ".", "5", "e", "1">>
    /\ call.maxLength = 4
    /\ DigitsConsumed(call) = 2
    /\ SignAndPrefixLen(call) = 1
    /\ scan.result = [m |-> -15, e |-> -1]

(***************************************************************************)
(* C18.  The consumed-character counter of a bounded scan is carried from  *)
(* the integer stage into the fractional and the exponent stage and never  *)
(* reset, under both cap policies; so also with the sign and the prefix    *)
(* not charged, the integer, fractional and exponent digits one evaluate_n *)
(* call consumes for a floating-point type are at most maxLength together. *)
(***************************************************************************)
C18_CounterCarriedAcrossStages ==
    /\ [][(IsEvaluateN /\ Defaults) => scan'.cnt >= scan.cnt]_vars
    /\ []((/\ IsEvaluateN /\ Defaults /\ Done /\ is_floating_point(call.T)
           /\ ~call.consideSignAndPrefixInMaxLength) =>
             DigitsConsumed(call) <= call.maxLength)

(***************************************************************************)
(* C19.  With the sign and the prefix charged, evaluate_n consumes at most *)
(* maxLength characters of the source in all: when the call returns the    *)
(* cursor is at most maxLength, the sign, the prefix, the '.', the 'e' /   *)
(* 'E' and the exponent's sign counting as consumed characters.            *)
(***************************************************************************)
C19_ChargedCursorWithinCap ==
    (Charged /\ Done) => scan.i <= call.maxLength

(***************************************************************************)
(* C20.  With the sign and the prefix not charged, a leading sign does not *)
(* change which later characters a bounded scan consumes: for a literal L  *)
(* that starts with no sign, every maxLength n and every signed type, the  *)
(* floating-point ones included, evaluate_n("-" + L, n, false) is the      *)
(* negation of evaluate_n(L, n, false), and the cursor stops one character *)
(* further.                                                                *)
(***************************************************************************)
C20_FreeSignDoesNotShiftCap ==
    (/\ Done /\ IsEvaluateN /\ Defaults /\ call.T.signed
     /\ ~call.consideSignAndPrefixInMaxLength
     /\ Len(call.str) >= 1 /\ call.str[1] = "-"
     /\ ~HasSignChar(Tail(call.str))
     /\ NoOverflow(call)
     /\ NoOverflow(WithStr(call, Tail(call.str)))) =>
        /\ scan.result = Negated(call.T, Result(WithStr(call, Tail(call.str))))
        /\ scan.i = Cursor(WithStr(call, Tail(call.str))) + 1

(***************************************************************************)
(* C21.  The sign is resolved once, before any digit is read, and applied  *)
(* exactly once, by the return, to the accumulator the integer, fractional *)
(* and exponent stages have finished; no stage uses the sign on a partial  *)
(* sum.  With consideSign off no sign character is consumed and nothing is *)
(* multiplied, so a source that starts with '+' or '-' yields 0.           *)
(***************************************************************************)
\* the locals s with the opposite sign
Flipped(s) == [s EXCEPT !.sign = 0 - @]

C21_SignAppliedOnceAtTheEnd ==
    \* the sign is set by the first statement only, before anything is read
    /\ [][scan'.sign # scan.sign =>
            scan.pc = "sign" /\ scan.i = 0 /\ scan.rd = -1 /\ call.consideSign]_vars
    \* up to the return no statement's effect on the accumulator, the cursor
    \* or the exponent depends on the sign
    /\ [][scan.pc # "ret" =>
            /\ Step(call, Flipped(scan)).number = scan'.number
            /\ Step(call, Flipped(scan)).i = scan'.i
            /\ Step(call, Flipped(scan)).exponent = scan'.exponent]_vars
    \* the return multiplies the finished accumulator, once
    /\ [][scan.pc = "ret" =>
            /\ scan'.pc = "done" /\ scan'.number = scan.number
            /\ scan'.result = IF call.consideSign
                              THEN MulSign(call.T, scan.number, scan.sign)
                              ELSE scan.number]_vars
    /\ [](call.consideSign \/ scan.sign = SIGN_POSITIVE)
    /\ []((Done /\ ~call.consideSign /\ HasSignChar(call.str)) =>
            scan.i = 0 /\ scan.result = Zero(call.T))

\* evaluate<float>("-3.14E-2") has returned: the accumulator went through the
\* three stages as 0.0314 and the return made it -0.0314
C21_Witness ==
    /\ Done /\ IsEvaluate /\ call.T = Float /\ call.consideSign
    /\ FlagsOf(call) = DefaultFlags
    /\ call.str = <<"-", "3", ".", "1", "4", "E", "-", "2">>
    /\ scan.sign = SIGN_NEGATIVE
    /\ scan.number = [m |-> 314, e |-> -4]
    /\ scan.result = [m |-> -314, e |-> -4]

(***************************************************************************)
(* C22.  The stages run in the order sign, prefix, integer digits,         *)
(* fractional part, exponent, each at most once and never backwards: a     *)
(* second '.' and a '.' that follows the exponent are never consumed (for  *)
(* a floating-point type "1.5.5" gives 1.5 and "1e2.5" gives 100), and     *)
(* the prefix is picked once, binary before hexadecimal, never both.       *)
(***************************************************************************)
\* the place of a statement in the order of the stages
StageOf(pc) ==
    CASE pc = "sign" -> 0
      [] pc = "prefix" -> 1
      [] pc = "int" -> 2
      [] pc \in {"dot", "frac"} -> 3
      [] pc \in {"exp", "expsign", "expdigits"} -> 4
      [] pc = "ret" -> 5
      [] OTHER -> 6

\* the places (from 1) of the consumed characters that are one of chars
ConsumedAt(chars) == {k \in 1..scan.i : call.str[k] \in chars}

C22_StagesInOrder ==
    /\ [][StageOf(scan'.pc) >= StageOf(scan.pc)]_vars
    /\ [][scan'.base # scan.base => scan.pc = "prefix"]_vars
    /\ []((IsEvaluate /\ Defaults /\ StageOf(scan.pc) >= 2) =>
            /\ scan.base = 2 <=> has_binary_prefix(call.str, AfterSign(call))
            /\ scan.base = 16 <=> has_hexadecimal_prefix(call.str, AfterSign(call)))
    /\ []((IsEvaluate /\ Defaults /\ Done) =>
            /\ Cardinality(ConsumedAt({"."})) <= 1
            /\ \A d \in ConsumedAt({"."}), x \in ConsumedAt({"e", "E"}) : d < x)
    /\ []((IsEvaluate /\ Defaults /\ Done /\ call.T = Float) =>
            /\ call.str = <<"1", ".", "5", ".", "5">> =>
                  scan.result = [m |-> 15, e |-> -1]
            /\ call.str = <<"1", "e", "2", ".", "5">> => scan.result = FInt(100))

(***************************************************************************)
(* C23.  Every call of evaluate and evaluate_n terminates and returns a    *)
(* value.  Each iteration of a loop advances the cursor by one, so a call  *)
(* makes at most as many loop iterations as the source has characters,     *)
(* and a bounded call at most maxLength digit iterations in each stage.    *)
(***************************************************************************)
\* the calls whose termination is checked: evaluate and evaluate_n on every
\* source of at most MaxLenL characters, with the default flags and every
\* maxLength up to the length and the default one, and evaluate on the flag
\* literals under every combination of the flags
InitL ==
    /\ \/ CallsEvaluate(Builds, ScanTypesN, StringsN(MaxLenL), {DefaultFlags})
       \/ CallsEvaluateN(BuildsN, ScanTypesN, StringsN(MaxLenL),
                         [s \in StringsN(MaxLenL) |-> Caps(MaxLenL)],
                         {DefaultFlags})
       \/ CallsEvaluate(Builds, ScanTypesN, FlagLiterals, Flags)
    /\ scan = Entry(call)

\* a call is one thread of control: its next statement is always taken
SpecLive == InitL /\ [][Next]_vars /\ WF_vars(Next)

\* the statements a call can execute: one per character for the loops, and
\* the nine statements outside the loops (the sign, the prefix, the exits of
\* the three loops, the '.', the exponent's mark and sign, the return)
MaxStatements(c) == Len(c.str) + 9

\* the locals after at most n statements from the locals s on
RECURSIVE RunFor(_, _, _)
RunFor(c, s, n) ==
    IF n = 0 \/ s.pc = "done" THEN s ELSE RunFor(c, Step(c, s), n - 1)

\* how many iterations the loops at the statements pcs make in the first n
\* statements from the locals s on
RECURSIVE LoopStepsFor(_, _, _, _)
LoopStepsFor(c, s, n, pcs) ==
    IF n = 0 \/ s.pc = "done" THEN 0
    ELSE (IF s.pc \in pcs /\ IsDigitStep(c, s) THEN 1 ELSE 0)
         + LoopStepsFor(c, Step(c, s), n - 1, pcs)

\* the iterations of the loops of the call c, all together and of one stage
LoopSteps(c, pcs) == LoopStepsFor(c, Entry(c), MaxStatements(c), pcs)

C23_Terminates ==
    /\ <>Done
    /\ [](RunFor(call, Entry(call), MaxStatements(call)).pc = "done")
    /\ [][IsDigitStep(call, scan) => scan'.i = scan.i + 1]_vars
    /\ [](LoopSteps(call, {"int", "frac", "expdigits"}) <= Len(call.str))
    /\ [](IsEvaluateN =>
            \A pc \in {"int", "frac", "expdigits"} :
                LoopSteps(call, {pc}) <= call.maxLength)

\* evaluate_n<int8_t>("11", 2) has returned 11 after two iterations, as many
\* as the source has characters and as maxLength allows
C23_Witness ==
    /\ Done /\ IsEvaluateN /\ Defaults /\ call.T = Int8
    /\ call.str = <<"1", "1">> /\ call.maxLength = 2
    /\ LoopSteps(call, {"int", "frac", "expdigits"}) = Len(call.str)
    /\ LoopSteps(call, {"int"}) = call.maxLength
    /\ scan.result = 11

(***************************************************************************)
(* C24.  The two header revisions are the same scanner: for every source,  *)
(* every combination of the flags and every target type, evaluate of       *)
(* src/seval.hpp and evaluate of src/include/seval.hpp, in its C++17       *)
(* shift-and-add form and in its multiply form, return the same value and  *)
(* stop at the same cursor; and on every accumulator value                 *)
(* (n << 3) + (n << 1) + d is n * 10 + d and (n << 4) | d is n * 16 + d.   *)
(***************************************************************************)
\* the call c compiled from another header / language standard
BuiltAs(c, build) == [c EXCEPT !.build = build]

C24_RevisionsAgree ==
    /\ (Done /\ IsEvaluate) =>
          \A b \in Builds :
              /\ Result(BuiltAs(call, b)) = scan.result
              /\ Cursor(BuiltAs(call, b)) = scan.i
    /\ (IsEvaluate /\ is_integral(call.T) /\ scan.pc = "int") =>
          /\ \A d \in 0..9 :
                ShiftAdd10(call.T, scan.number, d)
                    = MulAdd(call.T, scan.number, 10, d)
          /\ \A d \in 0..15 :
                ShiftOr(call.T, scan.number, 4, d)
                    = MulAdd(call.T, scan.number, 16, d)

=============================================================================
